---- MODULE Spec2Model ----
(***************************************************************************)
(* State-machine model of the VitaNet bundle manager                       *)
(* (src/bundle_manager.py, class VitaNetBundleManager).                    *)
(*                                                                         *)
(* The file system is modelled by three variables: the live store at       *)
(* db_path, the files at the bundle paths, and the timestamped backup      *)
(* files beside the store.  One call of create_bundle, restore_bundle or   *)
(* list_bundle_info is in flight at a time and advances one statement      *)
(* group per step, so that intermediate states (an archive opened for      *)
(* writing, a store removed but not yet replayed) are visible.             *)
(***************************************************************************)
EXTENDS Integers, Sequences, FiniteSets, TLC

\* ---------------------------------------------------------------- bounds
\* Number of calls and environment events (a write by another program, a
\* second passing) in one behaviour.
MaxOps == 3

\* ------------------------------------------------------ program constants
BUNDLE_VERSION == "1.0"
BUNDLE_EXTENSION == ".vitanet"

META_NAME == "bundle_metadata.json"
DB_NAME == "vitanet_backup.db"
SCHEMA_NAME == "schema.sql"
DATA_NAME == "data.sql"

\* ------------------------------------------------------------- optionals
\* An optional value is <<>> (absent, None) or <<v>>.
None == <<>>
Some(v) == <<v>>
IsSome(o) == o # <<>>
The(o) == o[1]

\* ------------------------------------------------------------------ paths
\* A path is the sequence of its stem and the suffixes appended to it.
EndsWithExt(p) == Len(p) > 0 /\ p[Len(p)] = BUNDLE_EXTENSION

\* Mutant: the path is used as given.
M_Normalize(p) == p

\* create_bundle, lines 40-41: append the extension when it is missing.
Normalize(p) == IF ~EndsWithExt(p) THEN Append(p, BUNDLE_EXTENSION) ELSE p

InputPaths == {<<"a">>, <<"a", BUNDLE_EXTENSION>>}
\* The name tempfile.NamedTemporaryFile(suffix='.vitanet') gives the copy of
\* an upload, src/bundle_api.py line 103.
TempPath == <<"tmp", BUNDLE_EXTENSION>>
\* The paths two concurrent callers are given.
PairPaths == {<<"a">>, <<"b">>}
DiskPaths ==
    InputPaths \cup {Normalize(p) : p \in InputPaths \cup PairPaths} \cup {TempPath}

\* ------------------------------------------------------- store contents
\* The content of a store file is the database it holds: its tables in
\* creation order, each with its rows in insertion order.
Table(n, rs) == [name |-> n, rows |-> rs]
DbEmpty == <<>>
DbA == <<Table("a", << <<"test1", "100">>, <<"test2", "200">> >>)>>
DbAB == <<Table("a", << <<"test1", "100">> >>), Table("b", << <<"k", "2">> >>)>>
StoreContents == {DbA, DbAB}

HasTable(db, n) == \E i \in 1..Len(db) : db[i].name = n

\* ----------------------------------------------------------- statements
Stmt(k, t, r) == [kw |-> k, table |-> t, row |-> r]
BeginStmt == Stmt("BEGIN", "", <<>>)
CommitStmt == Stmt("COMMIT", "", <<>>)
StartsWith(line, k) == line.kw = k

RECURSIVE InsertStmts(_, _)
InsertStmts(n, rs) ==
    IF rs = <<>> THEN <<>>
    ELSE <<Stmt("INSERT", n, Head(rs))>> \o InsertStmts(n, Tail(rs))

RECURSIVE TableStmts(_)
TableStmts(db) ==
    IF db = <<>> THEN <<>>
    ELSE <<Stmt("CREATE", Head(db).name, <<>>)>>
         \o InsertStmts(Head(db).name, Head(db).rows)
         \o TableStmts(Tail(db))

\* sqlite3 Connection.iterdump(): BEGIN, then per table its CREATE
\* followed by its INSERTs, then COMMIT.
Iterdump(db) == <<BeginStmt>> \o TableStmts(db) \o <<CommitStmt>>

\* _export_database_sql, lines 255-260: the first loop over the dump.
RECURSIVE SchemaLines(_)
SchemaLines(lines) ==
    IF lines = <<>> THEN <<>>
    ELSE LET line == Head(lines)
             w == IF StartsWith(line, "CREATE") \/ (StartsWith(line, "INSERT") = FALSE)
                  THEN <<line>> ELSE <<>>
         IN  IF StartsWith(line, "INSERT") THEN w
             ELSE w \o SchemaLines(Tail(lines))

\* _export_database_sql, lines 263-266: the second loop over the dump.
DataLines(lines) == SelectSeq(lines, LAMBDA line : StartsWith(line, "INSERT"))

\* --------------------------------------------------------- SQL execution
\* A connection state: ok (no statement failed), txn (a transaction is
\* open), work (the database as the connection sees it) and file (the
\* committed database, i.e. the content of the store file).
ConnState(o, t, w, f) == [ok |-> o, txn |-> t, work |-> w, file |-> f]

AddRow(db, n, r) ==
    [i \in 1..Len(db) |->
        IF db[i].name = n THEN Table(n, Append(db[i].rows, r)) ELSE db[i]]

\* One statement against the connection; outside a transaction every
\* statement is committed on its own.
ExecStmt(st, s) ==
    CASE st.kw = "BEGIN" ->
            IF s.txn THEN [s EXCEPT !.ok = FALSE] ELSE [s EXCEPT !.txn = TRUE]
      [] st.kw = "COMMIT" ->
            IF ~s.txn THEN [s EXCEPT !.ok = FALSE]
            ELSE [s EXCEPT !.txn = FALSE, !.file = s.work]
      [] st.kw = "CREATE" ->
            IF HasTable(s.work, st.table) THEN [s EXCEPT !.ok = FALSE]
            ELSE LET w == Append(s.work, Table(st.table, <<>>))
                 IN  [s EXCEPT !.work = w, !.file = IF s.txn THEN @ ELSE w]
      [] st.kw = "INSERT" ->
            IF ~HasTable(s.work, st.table) THEN [s EXCEPT !.ok = FALSE]
            ELSE LET w == AddRow(s.work, st.table, st.row)
                 IN  [s EXCEPT !.work = w, !.file = IF s.txn THEN @ ELSE w]
      [] OTHER -> [s EXCEPT !.ok = FALSE]

RECURSIVE ExecStmts(_, _)
ExecStmts(script, s) ==
    IF script = <<>> \/ ~s.ok THEN s
    ELSE ExecStmts(Tail(script), ExecStmt(Head(script), s))

\* Connection.executescript(): commit a pending transaction, then run the
\* statements up to the first one that fails.
ExecScript(script, s) ==
    ExecStmts(script, IF s.txn THEN [s EXCEPT !.txn = FALSE, !.file = s.work] ELSE s)

\* CREATE TABLE IF NOT EXISTS, lines 297-304.
EnsureTable(db, n) == IF HasTable(db, n) THEN db ELSE Append(db, Table(n, <<>>))

\* INSERT OR REPLACE on a table whose key column is UNIQUE, lines 307-310.
ReplaceRow(db, n, r) ==
    [i \in 1..Len(db) |->
        IF db[i].name = n
        THEN Table(n, Append(SelectSeq(db[i].rows, LAMBDA x : x[1] # r[1]), r))
        ELSE db[i]]

\* _create_empty_database from the connect on, lines 295-313, against the
\* file o found at the store path (none: sqlite3.connect creates it).
InitInfoTable(o) ==
    ReplaceRow(EnsureTable(IF IsSome(o) THEN The(o) ELSE DbEmpty, "vitanet_info"),
               "vitanet_info", <<"version", "1.0">>)

\* The store _create_empty_database leaves where there was none.
EmptyDatabase == <<Table("vitanet_info", << <<"version", BUNDLE_VERSION>> >>)>>

\* ---------------------------------------------------------- bundle files
\* A file at a bundle path.  zip: it is a zip container; closed: its
\* central directory has been written (a container still being written, or
\* abandoned by a crash, cannot be opened for reading).  The four entries
\* are optional.
Archive(z, c, m, d, s, t) ==
    [zip |-> z, closed |-> c, meta |-> m, db |-> d, schema |-> s, data |-> t]
NewArchive == Archive(TRUE, FALSE, None, None, None, None)

\* zipfile.ZipFile(path, 'r') succeeds on it.
Readable(f) == f.zip /\ f.closed

\* ZipFile.namelist(): the names of the entries, in the order written.
EntryNames(f) ==
    (IF IsSome(f.meta) THEN <<META_NAME>> ELSE <<>>)
    \o (IF IsSome(f.db) THEN <<DB_NAME>> ELSE <<>>)
    \o (IF IsSome(f.schema) THEN <<SCHEMA_NAME>> ELSE <<>>)
    \o (IF IsSome(f.data) THEN <<DATA_NAME>> ELSE <<>>)

\* os.path.getsize(bundle_path): a function of the file's content alone.
BundleSize(f) ==
    Len(EntryNames(f))
    + (IF IsSome(f.schema) THEN Len(The(f.schema)) ELSE 0)
    + (IF IsSome(f.data) THEN Len(The(f.data)) ELSE 0)

\* Mutant: the custom mapping is merged into the document, so its own
\* "version" replaces the format version.
M_Metadata(v, at, inc, cm) ==
    [version |-> IF \E p \in cm : p[1].text = "version"
                 THEN Some((CHOOSE p \in cm : p[1].text = "version")[2].text)
                 ELSE v,
     created_at |-> at, vitanet_version |-> "1.0",
     database_included |-> inc, custom_metadata |-> cm]

\* The metadata document, lines 46-52.
Metadata(v, at, inc, cm) ==
    [version |-> v, created_at |-> at, vitanet_version |-> "1.0",
     database_included |-> inc, custom_metadata |-> cm]

\* A key or a value of a custom mapping: a Python object of some kind,
\* written text.  A mapping is a set of <<key, value>> pairs.
Obj(k, t) == [kind |-> k, text |-> t]

\* `metadata or {}`, line 51.
OrEmpty(m) == IF m = None \/ The(m) = {} THEN {} ELSE The(m)

\* The mappings a caller passes: absent, empty, one that names its own
\* version, one with an integer key and a tuple value, one with a set
\* value.
CustomInputs ==
    {None, Some({}),
     Some({<<Obj("str", "version"), Obj("str", "0.1")>>}),
     Some({<<Obj("int", "1"), Obj("tuple", "x")>>}),
     Some({<<Obj("str", "k"), Obj("set", "x")>>})}

\* json.dump, line 57: raises TypeError on a value JSON has no form for.
JsonEncodable(cm) ==
    \A p \in cm : p[1].kind \in {"str", "int"} /\ p[2].kind \in {"str", "list", "tuple"}

\* json.dump followed by json.load (lines 57, 143-144, 228-229): a key
\* comes back as a string, a tuple as a list.
JsonKey(k) == Obj("str", k.text)
JsonValue(v) == Obj(IF v.kind = "tuple" THEN "list" ELSE v.kind, v.text)
JsonRoundTrip(md) ==
    [md EXCEPT !.custom_metadata = {<<JsonKey(p[1]), JsonValue(p[2])>> : p \in @}]

\* Files that did not come from create_bundle: the test suite's fakes and
\* archives holding only some of the entries.
NotZip == Archive(FALSE, TRUE, None, None, None, None)
EmptyZip == Archive(TRUE, TRUE, None, None, None, None)
ForeignMeta(v) == Metadata(v, 0, FALSE, {})
WrongVersion == Archive(TRUE, TRUE, Some(ForeignMeta(Some("0.1"))), Some(DbA), None, None)
NoVersion == Archive(TRUE, TRUE, Some(ForeignMeta(None)), None, None, None)
MetaOnly == Archive(TRUE, TRUE, Some(ForeignMeta(Some(BUNDLE_VERSION))), None, None, None)
SqlOnly(db) ==
    Archive(TRUE, TRUE, Some(ForeignMeta(Some(BUNDLE_VERSION))), None,
            Some(SchemaLines(Iterdump(db))), Some(DataLines(Iterdump(db))))
SchemaOnly ==
    Archive(TRUE, TRUE, Some(ForeignMeta(Some(BUNDLE_VERSION))), None,
            Some(SchemaLines(Iterdump(DbA))), None)
DataOnly ==
    Archive(TRUE, TRUE, Some(ForeignMeta(Some(BUNDLE_VERSION))), None,
            None, Some(DataLines(Iterdump(DbA))))
RawAndData ==
    Archive(TRUE, TRUE, Some(ForeignMeta(Some(BUNDLE_VERSION))), Some(DbA),
            None, Some(DataLines(Iterdump(DbAB))))
ForeignBundles ==
    {NotZip, EmptyZip, WrongVersion, NoVersion, MetaOnly, SqlOnly(DbA), SqlOnly(DbAB),
     SchemaOnly, DataOnly, RawAndData}

\* The calls of create_bundle that are tried: every mapping with the
\* un-suffixed path, the suffixed path without a mapping.
CreateInputs ==
    {<<p, m>> \in InputPaths \X CustomInputs : EndsWithExt(p) => m = None}

\* ---------------------------------------------------------------- results
Failure(err, msg) == [success |-> FALSE, error |-> err, message |-> msg]

\* The `except Exception as e` handlers, lines 94-99, 194-199, 240-245.
Caught(prefix, e) == Failure(e, <<prefix, e>>)

\* ------------------------------------------------------------------ state
VARIABLES
    store,     \* the file at db_path: None or Some(database)
    disk,      \* the file at each bundle path: None or Some(archive)
    backups,   \* the file at db_path.backup.<stamp>, per stamp
    clock,     \* the wall clock, in whole seconds
    pc,        \* position of the call in flight, "idle" when none
    loc,       \* the local variables of the call in flight
    scratch,   \* the call's temporary directory
    conn,      \* the sqlite3 connection of the call
    result,    \* what the last call returned: None or Some(result)
    call,      \* history: the last call, its arguments, injected faults
    pre,       \* history: store, disk and backups when the call started,
               \* and what the restores before it did to the store
    made,      \* history: per bundle path, the store a successful create read
               \* and the custom mapping it was given
    ops,       \* history: number of calls and environment writes so far
    other      \* a second caller's call while the first one's steps run:
               \* its pc, loc, scratch, conn, result and call

vars == <<store, disk, backups, clock, pc, loc, scratch, conn, result,
          call, pre, made, ops, other>>
files == <<store, disk, backups>>

Stamps == 0..MaxOps

NoLoc ==
    [bundle_path |-> <<>>, force |-> FALSE, metadata_arg |-> None,
     metadata |-> None, db_backup_path |-> FALSE, zip_open |-> FALSE,
     backup_created |-> FALSE, backup_path |-> None, restored_from |-> None,
     contents |-> <<>>, db_exists |-> FALSE, db_size |-> 0]
NoScratch == [exists |-> FALSE, meta |-> None, db |-> None, schema |-> None, data |-> None]
NewScratch == [NoScratch EXCEPT !.exists = TRUE]
NoConn == [open |-> FALSE, txn |-> FALSE, work |-> DbEmpty]
\* fault: the position at which a statement was made to raise, "" if none.
\* prev: when an info call directly follows an info call that returned, the
\* path and the result of that call.
\* upload: the file part of an HTTP request, if it has one.
NoCall == [op |-> "none", path |-> <<>>, force |-> FALSE, custom |-> None,
           fault |-> "", crashed |-> FALSE, prev |-> None, upload |-> None]

\* The last call was a restore_bundle that returned the result of lines
\* 180-192; a forced one that did not.
RestoreSucceeded ==
    call.op = "restore" /\ pc = "idle" /\ IsSome(result) /\ The(result).success
ForcedRestoreFailed ==
    call.op = "restore" /\ call.force /\ ~RestoreSucceeded
\* kept: some restore has succeeded and nothing outside the bundle manager
\* has deleted the store since.  clean: moreover no forced restore has
\* failed since.
Kept == RestoreSucceeded \/ pre.kept
Clean == RestoreSucceeded \/ (pre.clean /\ ~ForcedRestoreFailed)
Snapshot == [store |-> store, disk |-> disk, backups |-> backups,
             kept |-> Kept, clean |-> Clean]

\* What one caller holds: each process has its own position, locals,
\* connection and, by tempfile.TemporaryDirectory(), its own scratch.
Context == [pc |-> pc, loc |-> loc, scratch |-> scratch, conn |-> conn,
            result |-> result, call |-> call]
Parked == [pc |-> "idle", loc |-> NoLoc, scratch |-> NoScratch, conn |-> NoConn,
           result |-> None, call |-> NoCall]

Init ==
    /\ store \in {None} \cup {Some(c) : c \in StoreContents}
    /\ disk = [p \in DiskPaths |-> None]
    /\ backups = [t \in Stamps |-> None]
    /\ clock = 0
    /\ pc = "idle"
    /\ loc = NoLoc
    /\ scratch = NoScratch
    /\ conn = NoConn
    /\ result = None
    /\ call = NoCall
    /\ pre = [store |-> store, disk |-> disk, backups |-> backups,
              kept |-> FALSE, clean |-> FALSE]
    /\ made = [p \in DiskPaths |-> None]
    /\ ops = 0
    /\ other = Parked

\* A call begins: nothing on disk changes yet.
Begin(op, p, f, m, first) ==
    /\ pc = "idle"
    /\ ops < MaxOps
    /\ ops' = ops + 1
    /\ call' = [op |-> op, path |-> p, force |-> f, custom |-> m,
                fault |-> "", crashed |-> FALSE,
                prev |-> IF op = "info" /\ call.op = "info" /\ call.fault = ""
                            /\ IsSome(result)
                         THEN Some([path |-> call.path, result |-> The(result)])
                         ELSE None,
                upload |-> None]
    /\ pre' = Snapshot
    /\ pc' = first
    /\ result' = None
    /\ conn' = NoConn
    /\ UNCHANGED <<files, clock, made, other>>

\* A call returns r: the `with tempfile.TemporaryDirectory()` block, if
\* entered, removes the scratch directory on the way out.
Return(r) ==
    /\ result' = Some(r)
    /\ pc' = IF call.op = "http_restore" THEN "h_respond" ELSE "idle"
    /\ loc' = NoLoc
    /\ scratch' = NoScratch

\* ------------------------------------------------------------ environment
\* Time passes.  A call reads the clock at most once, so the seconds that
\* pass during a call are those that pass before or after it.
Tick ==
    /\ pc = "idle"
    /\ ops < MaxOps
    /\ ops' = ops + 1
    /\ clock' = clock + 1
    /\ call' = NoCall
    /\ result' = None
    /\ pre' = Snapshot
    /\ UNCHANGED <<files, pc, loc, scratch, conn, made, other>>

\* A write by something other than the bundle manager, between two calls.
EnvWrite(s, d) ==
    /\ pc = "idle"
    /\ ops < MaxOps
    /\ ops' = ops + 1
    /\ store' = s
    /\ disk' = d
    /\ call' = NoCall
    /\ result' = None
    /\ LET deleted == IsSome(store) /\ ~IsSome(s)
       IN  pre' = [store |-> s, disk |-> d, backups |-> backups,
                   kept |-> Kept /\ ~deleted, clean |-> Clean /\ ~deleted]
    /\ UNCHANGED <<backups, clock, pc, loc, scratch, conn, other>>

\* The application rewrites its store.
AppWriteStore(c) ==
    /\ store # Some(c)
    /\ EnvWrite(Some(c), disk)
    /\ UNCHANGED made

\* The store file is taken away (moved or deleted by its owner).
AppRemoveStore ==
    /\ IsSome(store)
    /\ EnvWrite(None, disk)
    /\ UNCHANGED made

\* A file that create_bundle did not write is put at a bundle path.
PlaceBundle(p, f) ==
    /\ EnvWrite(store, [disk EXCEPT ![p] = Some(f)])
    /\ made' = [made EXCEPT ![p] = None]

\* ---------------------------------------------------------- create_bundle
ExportPcs == {"c_export", "c_export_check", "c_export_connect", "c_export_schema",
              "c_export_data", "c_export_close"}
CreatePcs == {"c_meta", "c_copy", "c_zip_open", "c_zip_meta",
              "c_zip_db", "c_zip_schema", "c_zip_data", "c_zip_close", "c_ret"}
             \cup ExportPcs

\* Lines 38-44: normalise the path, enter the scratch directory.
CreateCall(p, m) ==
    /\ Begin("create", p, FALSE, m, "c_meta")
    /\ loc' = [NoLoc EXCEPT !.bundle_path = Normalize(p), !.metadata_arg = m]
    /\ scratch' = NewScratch

\* Lines 46-57: build the metadata document and save it in the scratch as
\* JSON; the entry is held as the document json.load reads back from it.
CreateMeta ==
    /\ pc = "c_meta"
    /\ LET bundle_metadata ==
               Metadata(Some(BUNDLE_VERSION), clock, IsSome(store),
                        OrEmpty(loc.metadata_arg))
       IN  IF ~JsonEncodable(bundle_metadata.custom_metadata)
           THEN Return(Caught("Failed to create bundle", "TypeError"))
           ELSE /\ loc' = [loc EXCEPT !.metadata = Some(bundle_metadata)]
                /\ scratch' = [scratch EXCEPT !.meta = Some(JsonRoundTrip(bundle_metadata))]
                /\ pc' = "c_copy"
                /\ UNCHANGED result
    /\ UNCHANGED <<files, clock, conn, call, pre, made, ops, other>>

\* Lines 59-63: copy the store file into the scratch, if there is one.
CreateCopy ==
    /\ pc = "c_copy"
    /\ IF IsSome(store)
       THEN /\ scratch' = [scratch EXCEPT !.db = store]
            /\ loc' = [loc EXCEPT !.db_backup_path = TRUE]
       ELSE UNCHANGED <<scratch, loc>>
    /\ pc' = "c_export"
    /\ UNCHANGED <<files, clock, conn, result, call, pre, made, ops, other>>

\* Lines 65-69: the dump is asked for when a store file exists.
CreateExport ==
    /\ pc = "c_export"
    /\ pc' = IF IsSome(store) THEN "c_export_check" ELSE "c_zip_open"
    /\ UNCHANGED <<files, clock, loc, scratch, conn, result, call, pre, made, ops, other>>

\* _export_database_sql, lines 249-250: its own existence check.
ExportCheck ==
    /\ pc = "c_export_check"
    /\ pc' = IF IsSome(store) THEN "c_export_connect" ELSE "c_zip_open"
    /\ UNCHANGED <<files, clock, loc, scratch, conn, result, call, pre, made, ops, other>>

\* Line 252: sqlite3.connect creates the store file when there is none.
ExportConnect ==
    /\ pc = "c_export_connect"
    /\ store' = IF IsSome(store) THEN store ELSE Some(DbEmpty)
    /\ conn' = [open |-> TRUE, txn |-> FALSE, work |-> The(store')]
    /\ pc' = "c_export_schema"
    /\ UNCHANGED <<disk, backups, clock, loc, scratch, result, call, pre, made, ops, other>>

\* Lines 255-260: the first pass over conn.iterdump(), into schema.sql.
\* The connection reads the file as it is now; a file that has been
\* removed stays readable through the open connection.
ExportSchema ==
    /\ pc = "c_export_schema"
    /\ LET db == IF IsSome(store) THEN The(store) ELSE conn.work
       IN  scratch' = [scratch EXCEPT !.schema = Some(SchemaLines(Iterdump(db)))]
    /\ pc' = "c_export_data"
    /\ UNCHANGED <<files, clock, loc, conn, result, call, pre, made, ops, other>>

\* Lines 263-266: the second pass over conn.iterdump(), into data.sql.
ExportData ==
    /\ pc = "c_export_data"
    /\ LET db == IF IsSome(store) THEN The(store) ELSE conn.work
       IN  scratch' = [scratch EXCEPT !.data = Some(DataLines(Iterdump(db)))]
    /\ pc' = "c_export_close"
    /\ UNCHANGED <<files, clock, loc, conn, result, call, pre, made, ops, other>>

\* Line 268: conn.close().
ExportClose ==
    /\ pc = "c_export_close"
    /\ conn' = NoConn
    /\ pc' = "c_zip_open"
    /\ UNCHANGED <<files, clock, loc, scratch, result, call, pre, made, ops, other>>

\* Line 72: zipfile.ZipFile(bundle_path, 'w') creates or truncates the
\* file at the destination path itself.
CreateZipOpen ==
    /\ pc = "c_zip_open"
    /\ disk' = [disk EXCEPT ![loc.bundle_path] = Some(NewArchive)]
    /\ made' = [made EXCEPT ![loc.bundle_path] = None]
    /\ loc' = [loc EXCEPT !.zip_open = TRUE]
    /\ pc' = "c_zip_meta"
    /\ UNCHANGED <<store, backups, clock, scratch, conn, result, call, pre, ops, other>>

\* bundle_zip.write(...) of one scratch file into the open archive.
ZipWrite(entry, content, next) ==
    /\ disk' = [disk EXCEPT ![loc.bundle_path] =
                   Some([The(@) EXCEPT ![entry] = content])]
    /\ pc' = next
    /\ UNCHANGED <<store, backups, clock, loc, scratch, conn, result, call,
                   pre, made, ops, other>>

\* Lines 73-74.
CreateZipMeta ==
    /\ pc = "c_zip_meta"
    /\ ZipWrite("meta", scratch.meta, "c_zip_db")

\* Lines 76-78.
CreateZipDb ==
    /\ pc = "c_zip_db"
    /\ ZipWrite("db", IF loc.db_backup_path /\ IsSome(scratch.db)
                      THEN scratch.db ELSE None, "c_zip_schema")

\* Lines 80-81.
CreateZipSchema ==
    /\ pc = "c_zip_schema"
    /\ ZipWrite("schema", scratch.schema, "c_zip_data")

\* Lines 83-84.
CreateZipData ==
    /\ pc = "c_zip_data"
    /\ ZipWrite("data", scratch.data, "c_zip_close")

\* ZipFile.close(): the central directory is written.
CloseArchive(d, p) == [d EXCEPT ![p] = Some([The(@) EXCEPT !.closed = TRUE])]

\* Line 85: the `with zipfile.ZipFile` block ends.
CreateZipClose ==
    /\ pc = "c_zip_close"
    /\ disk' = CloseArchive(disk, loc.bundle_path)
    /\ loc' = [loc EXCEPT !.zip_open = FALSE]
    /\ pc' = "c_ret"
    /\ UNCHANGED <<store, backups, clock, scratch, conn, result, call, pre,
                   made, ops, other>>

\* Lines 86-92.
CreateResult ==
    [success |-> TRUE,
     bundle_path |-> loc.bundle_path,
     bundle_size |-> BundleSize(The(disk[loc.bundle_path])),
     metadata |-> The(loc.metadata),
     message |-> <<"Bundle created successfully at", loc.bundle_path>>]

CreateReturn ==
    /\ pc = "c_ret"
    /\ Return(CreateResult)
    /\ made' = [made EXCEPT ![loc.bundle_path] =
                    Some([store |-> pre.store, custom |-> OrEmpty(call.custom)])]
    /\ UNCHANGED <<files, clock, conn, call, pre, ops, other>>

\* Mutant: no handler around the build, the exception reaches the caller.
M_CreateFault ==
    /\ pc \in CreatePcs
    /\ disk' = IF loc.zip_open THEN CloseArchive(disk, loc.bundle_path) ELSE disk
    /\ result' = None
    /\ pc' = "idle"
    /\ loc' = NoLoc
    /\ scratch' = NoScratch
    /\ call' = [call EXCEPT !.fault = pc]
    /\ UNCHANGED <<store, backups, clock, conn, pre, made, ops, other>>

\* A statement of the build raises (an I/O error): an open archive is
\* closed by its `with` block, the scratch directory is removed, and the
\* handler at lines 94-99 returns the failure.
CreateFault ==
    /\ pc \in CreatePcs
    /\ disk' = IF loc.zip_open THEN CloseArchive(disk, loc.bundle_path) ELSE disk
    /\ Return(Caught("Failed to create bundle", "OSError"))
    /\ call' = [call EXCEPT !.fault = pc]
    /\ UNCHANGED <<store, backups, clock, conn, pre, made, ops, other>>

\* The process dies during the build: nothing is cleaned up, the archive
\* stays as far as it was written and the scratch directory is orphaned.
CreateCrash ==
    /\ pc \in CreatePcs
    /\ pc' = "idle"
    /\ loc' = NoLoc
    /\ scratch' = NoScratch
    /\ call' = [call EXCEPT !.crashed = TRUE]
    /\ UNCHANGED <<files, clock, conn, result, pre, made, ops, other>>

CreateSteps ==
    \/ CreateMeta
    \/ CreateCopy
    \/ CreateExport
    \/ ExportCheck
    \/ ExportConnect
    \/ ExportSchema
    \/ ExportData
    \/ ExportClose
    \/ CreateZipOpen
    \/ CreateZipMeta
    \/ CreateZipDb
    \/ CreateZipSchema
    \/ CreateZipData
    \/ CreateZipClose
    \/ CreateReturn

Create ==
    \/ \E i \in CreateInputs : CreateCall(i[1], i[2])
    \/ CreateSteps
    \/ CreateFault
    \/ CreateCrash

\* --------------------------------------------------------- restore_bundle
RestoreResult ==
    LET r == [success |-> TRUE,
              bundle_path |-> loc.bundle_path,
              restored_from |-> The(loc.restored_from),
              metadata |-> The(loc.metadata),
              backup_created |-> loc.backup_created,
              message |-> <<"Bundle restored successfully">>]
    IN  IF loc.backup_created
        THEN [k \in DOMAIN r \cup {"backup_path"} |->
                 IF k = "backup_path" THEN The(loc.backup_path) ELSE r[k]]
        ELSE r

RestoreCall(p, f) ==
    /\ Begin("restore", p, f, None, "r_guard1")
    /\ loc' = [NoLoc EXCEPT !.bundle_path = p, !.force = f]
    /\ scratch' = NoScratch

\* Mutant: the overwrite guard is evaluated before the bundle is looked for.
M_RestoreGuardBundle ==
    /\ pc = "r_guard1"
    /\ IF IsSome(store) /\ ~loc.force
       THEN Return(Failure("Database exists",
                           <<"Database already exists. Use force=True to overwrite">>))
       ELSE IF ~IsSome(disk[loc.bundle_path])
       THEN Return(Failure("Bundle file not found",
                           <<"Bundle file", loc.bundle_path, "does not exist">>))
       ELSE /\ pc' = "r_guard2"
            /\ UNCHANGED <<loc, scratch, result>>
    /\ UNCHANGED <<files, clock, conn, call, pre, made, ops, other>>

\* Lines 113-118.
RestoreGuardBundle ==
    /\ pc = "r_guard1"
    /\ IF ~IsSome(disk[loc.bundle_path])
       THEN Return(Failure("Bundle file not found",
                           <<"Bundle file", loc.bundle_path, "does not exist">>))
       ELSE /\ pc' = "r_guard2"
            /\ UNCHANGED <<loc, scratch, result>>
    /\ UNCHANGED <<files, clock, conn, call, pre, made, ops, other>>

\* Mutant: the overwrite guard is missing.
M_RestoreGuardForce ==
    /\ pc = "r_guard2"
    /\ pc' = "r_extract"
    /\ UNCHANGED <<loc, scratch, result>>
    /\ UNCHANGED <<files, clock, conn, call, pre, made, ops, other>>

\* Mutant: the backup is taken at the overwrite guard, before the archive
\* has been opened and validated.
M_RestoreGuardForce_BackupFirst ==
    /\ pc = "r_guard2"
    /\ IF IsSome(store) /\ ~loc.force
       THEN /\ Return(Failure("Database exists",
                              <<"Database already exists. Use force=True to overwrite">>))
            /\ UNCHANGED backups
       ELSE /\ pc' = "r_extract"
            /\ backups' = IF IsSome(store)
                          THEN [backups EXCEPT ![clock] = store]
                          ELSE backups
            /\ UNCHANGED <<loc, scratch, result>>
    /\ UNCHANGED <<store, disk, clock, conn, call, pre, made, ops, other>>

\* Lines 120-126.
RestoreGuardForce ==
    /\ pc = "r_guard2"
    /\ IF IsSome(store) /\ ~loc.force
       THEN Return(Failure("Database exists",
                           <<"Database already exists. Use force=True to overwrite">>))
       ELSE /\ pc' = "r_extract"
            /\ UNCHANGED <<loc, scratch, result>>
    /\ UNCHANGED <<files, clock, conn, call, pre, made, ops, other>>

\* Lines 129-132: enter the scratch directory, open the archive and
\* extract every entry; zipfile raises BadZipFile on anything else.
RestoreExtract ==
    /\ pc = "r_extract"
    /\ LET f == The(disk[loc.bundle_path])
       IN  IF ~Readable(f)
           THEN Return(Caught("Failed to restore bundle", "File is not a zip file"))
           ELSE /\ scratch' = [exists |-> TRUE, meta |-> f.meta, db |-> f.db,
                               schema |-> f.schema, data |-> f.data]
                /\ pc' = "r_validate"
                /\ UNCHANGED <<loc, result>>
    /\ UNCHANGED <<files, clock, conn, call, pre, made, ops, other>>

\* Mutant: a metadata document without a version is taken to be current.
M_RestoreValidate ==
    /\ pc = "r_validate"
    /\ IF ~IsSome(scratch.meta)
       THEN Return(Failure("Invalid bundle", <<"Bundle metadata not found">>))
       ELSE LET metadata == The(scratch.meta)
            IN  IF metadata.version \notin {None, Some(BUNDLE_VERSION)}
                THEN Return(Failure("Version mismatch",
                                    <<"Bundle version", metadata.version, "not supported">>))
                ELSE /\ loc' = [loc EXCEPT !.metadata = Some(metadata)]
                     /\ pc' = "r_backup"
                     /\ UNCHANGED <<scratch, result>>
    /\ UNCHANGED <<files, clock, conn, call, pre, made, ops, other>>

\* Mutant: a bundle without a metadata entry is taken to be a current one.
M_RestoreValidate_NoMetaCheck ==
    /\ pc = "r_validate"
    /\ IF IsSome(scratch.meta) /\ The(scratch.meta).version # Some(BUNDLE_VERSION)
       THEN Return(Failure("Version mismatch",
                           <<"Bundle version", The(scratch.meta).version, "not supported">>))
       ELSE /\ loc' = [loc EXCEPT !.metadata = scratch.meta]
            /\ pc' = "r_backup"
            /\ UNCHANGED <<scratch, result>>
    /\ UNCHANGED <<files, clock, conn, call, pre, made, ops, other>>

\* Lines 134-152: the metadata entry must exist and carry the version.
RestoreValidate ==
    /\ pc = "r_validate"
    /\ IF ~IsSome(scratch.meta)
       THEN Return(Failure("Invalid bundle", <<"Bundle metadata not found">>))
       ELSE LET metadata == The(scratch.meta)
            IN  IF metadata.version # Some(BUNDLE_VERSION)
                THEN Return(Failure("Version mismatch",
                                    <<"Bundle version", metadata.version, "not supported">>))
                ELSE /\ loc' = [loc EXCEPT !.metadata = Some(metadata)]
                     /\ pc' = "r_backup"
                     /\ UNCHANGED <<scratch, result>>
    /\ UNCHANGED <<files, clock, conn, call, pre, made, ops, other>>

\* Line 157: the backup's name carries the clock to the second.
BackupStamp == clock

\* Mutant: the copy to the backup path is left out.
M_RestoreBackup ==
    /\ pc = "r_backup"
    /\ pc' = "r_select"
    /\ UNCHANGED <<files, clock, loc, scratch, conn, result, call, pre, made, ops, other>>

\* Lines 154-159: copy an existing store to db_path.backup.<stamp>.
RestoreBackup ==
    /\ pc = "r_backup"
    /\ IF IsSome(store)
       THEN /\ backups' = [backups EXCEPT ![BackupStamp] = store]
            /\ loc' = [loc EXCEPT !.backup_created = TRUE,
                                  !.backup_path = Some(BackupStamp)]
       ELSE UNCHANGED <<backups, loc>>
    /\ pc' = "r_select"
    /\ UNCHANGED <<store, disk, clock, scratch, conn, result, call, pre, made, ops, other>>

\* Mutant: the SQL dump is preferred to the raw copy.
M_ImportBranch(sc) ==
    IF IsSome(sc.schema) THEN "r_sql_remove"
    ELSE IF IsSome(sc.db) THEN "r_copy"
    ELSE "r_empty_remove"

\* Lines 161-178: which representation the import uses.
ImportBranch(sc) ==
    IF IsSome(sc.db) THEN "r_copy"
    ELSE IF IsSome(sc.schema) THEN "r_sql_remove"
    ELSE "r_empty_remove"

RestoreSelect ==
    /\ pc = "r_select"
    /\ pc' = ImportBranch(scratch)
    /\ UNCHANGED <<files, clock, loc, scratch, conn, result, call, pre, made, ops, other>>

\* Lines 167-170: the raw copy replaces the store.
RestoreCopy ==
    /\ pc = "r_copy"
    /\ store' = scratch.db
    /\ loc' = [loc EXCEPT !.restored_from = Some("backup_database")]
    /\ pc' = "r_ret"
    /\ UNCHANGED <<disk, backups, clock, scratch, conn, result, call, pre, made, ops, other>>

\* os.remove(self.db_path) under its existence check, lines 273-274 and
\* 292-293.
RemoveStore(next) ==
    /\ store' = None
    /\ pc' = next
    /\ UNCHANGED <<disk, backups, clock, loc, scratch, conn, result, call,
                   pre, made, ops, other>>

RestoreSqlRemove ==
    /\ pc = "r_sql_remove"
    /\ RemoveStore("r_sql_connect")

\* Line 276: sqlite3.connect creates the store file when there is none.
RestoreSqlConnect ==
    /\ pc = "r_sql_connect"
    /\ store' = IF IsSome(store) THEN store ELSE Some(DbEmpty)
    /\ conn' = [open |-> TRUE, txn |-> FALSE, work |-> The(store')]
    /\ pc' = "r_sql_schema"
    /\ UNCHANGED <<disk, backups, clock, loc, scratch, result, call, pre, made, ops, other>>

\* Mutant: a failing script undoes the import by putting the store back
\* as the call found it.
M_RunScript(script, next) ==
    IF ~IsSome(script)
    THEN /\ pc' = next
         /\ UNCHANGED <<store, conn, loc, scratch, result>>
    ELSE LET s == ExecScript(The(script), ConnState(TRUE, conn.txn, conn.work, The(store)))
         IN  /\ store' = IF s.ok THEN Some(s.file) ELSE pre.store
             /\ conn' = [conn EXCEPT !.txn = s.txn, !.work = s.work]
             /\ IF s.ok
                THEN /\ pc' = next
                     /\ UNCHANGED <<loc, scratch, result>>
                ELSE Return(Caught("Failed to restore bundle", "sqlite3.OperationalError"))

\* conn.executescript(f.read()) of one extracted script, if it exists; a
\* failing statement raises out of restore_bundle with the connection
\* still open.
RunScript(script, next) ==
    IF ~IsSome(script)
    THEN /\ pc' = next
         /\ UNCHANGED <<store, conn, loc, scratch, result>>
    ELSE LET s == ExecScript(The(script), ConnState(TRUE, conn.txn, conn.work, The(store)))
         IN  /\ store' = Some(s.file)
             /\ conn' = [conn EXCEPT !.txn = s.txn, !.work = s.work]
             /\ IF s.ok
                THEN /\ pc' = next
                     /\ UNCHANGED <<loc, scratch, result>>
                ELSE Return(Caught("Failed to restore bundle", "sqlite3.OperationalError"))

\* Lines 278-281.
RestoreSqlSchema ==
    /\ pc = "r_sql_schema"
    /\ RunScript(scratch.schema, "r_sql_data")
    /\ UNCHANGED <<disk, backups, clock, call, pre, made, ops, other>>

\* Lines 283-286.
RestoreSqlData ==
    /\ pc = "r_sql_data"
    /\ RunScript(scratch.data, "r_sql_close")
    /\ UNCHANGED <<disk, backups, clock, call, pre, made, ops, other>>

\* Line 288 and line 174: closing rolls back what was not committed.
RestoreSqlClose ==
    /\ pc = "r_sql_close"
    /\ conn' = NoConn
    /\ loc' = [loc EXCEPT !.restored_from = Some("sql_files")]
    /\ pc' = "r_ret"
    /\ UNCHANGED <<files, clock, scratch, result, call, pre, made, ops, other>>

\* Mutant: the existing store is not removed first.
M_RestoreEmptyRemove ==
    /\ pc = "r_empty_remove"
    /\ pc' = "r_empty_init"
    /\ UNCHANGED <<files, clock, loc, scratch, conn, result, call, pre, made, ops, other>>

\* Lines 292-293.
RestoreEmptyRemove ==
    /\ pc = "r_empty_remove"
    /\ RemoveStore("r_empty_init")

\* Mutant: the empty store is reported but never written.
M_RestoreEmptyInit ==
    /\ pc = "r_empty_init"
    /\ loc' = [loc EXCEPT !.restored_from = Some("empty_database")]
    /\ pc' = "r_ret"
    /\ UNCHANGED <<files, clock, scratch, conn, result, call, pre, made, ops, other>>

\* _create_empty_database, lines 295-313, and line 178.
RestoreEmptyInit ==
    /\ pc = "r_empty_init"
    /\ store' = Some(InitInfoTable(store))
    /\ loc' = [loc EXCEPT !.restored_from = Some("empty_database")]
    /\ pc' = "r_ret"
    /\ UNCHANGED <<disk, backups, clock, scratch, conn, result, call, pre, made, ops, other>>

\* Lines 180-192.
RestoreReturn ==
    /\ pc = "r_ret"
    /\ Return(RestoreResult)
    /\ UNCHANGED <<files, clock, conn, call, pre, made, ops, other>>

\* A statement inside the scratch block raises (an I/O error): the
\* handler at lines 194-199 returns the failure; nothing is undone.
RestoreFaultPcs == {"r_extract", "r_validate", "r_backup", "r_copy",
                    "r_sql_remove", "r_sql_connect", "r_sql_schema",
                    "r_sql_data", "r_empty_remove", "r_empty_init"}

RestoreFault ==
    /\ pc \in RestoreFaultPcs
    /\ Return(Caught("Failed to restore bundle", "OSError"))
    /\ call' = [call EXCEPT !.fault = pc]
    /\ UNCHANGED <<files, clock, conn, pre, made, ops, other>>

RestoreSteps ==
    \/ RestoreGuardBundle
    \/ RestoreGuardForce
    \/ RestoreExtract
    \/ RestoreValidate
    \/ RestoreBackup
    \/ RestoreSelect
    \/ RestoreCopy
    \/ RestoreSqlRemove
    \/ RestoreSqlConnect
    \/ RestoreSqlSchema
    \/ RestoreSqlData
    \/ RestoreSqlClose
    \/ RestoreEmptyRemove
    \/ RestoreEmptyInit
    \/ RestoreReturn
    \/ RestoreFault

Restore ==
    \/ \E p \in InputPaths, f \in BOOLEAN : RestoreCall(p, f)
    \/ RestoreSteps

\* ------------------------------------------------------- list_bundle_info
InfoCall(p) ==
    /\ Begin("info", p, FALSE, None, "i_guard")
    /\ loc' = [NoLoc EXCEPT !.bundle_path = p]
    /\ scratch' = NoScratch

\* Lines 212-217.
InfoGuardBundle ==
    /\ pc = "i_guard"
    /\ IF ~IsSome(disk[loc.bundle_path])
       THEN Return(Failure("Bundle file not found",
                           <<"Bundle file", loc.bundle_path, "does not exist">>))
       ELSE /\ pc' = "i_read"
            /\ UNCHANGED <<loc, scratch, result>>
    /\ UNCHANGED <<files, clock, conn, call, pre, made, ops, other>>

\* Mutant: the raw copy is extracted along with the metadata entry.
M_InfoRead_NeedsDb ==
    /\ pc = "i_read"
    /\ LET f == The(disk[loc.bundle_path])
       IN  IF ~Readable(f)
           THEN Return(Caught("Failed to read bundle", "File is not a zip file"))
           ELSE IF ~IsSome(f.meta) \/ ~IsSome(f.db)
           THEN Return(Caught("Failed to read bundle", "There is no item named"))
           ELSE /\ scratch' = [NewScratch EXCEPT !.meta = f.meta]
                /\ loc' = [loc EXCEPT !.metadata = f.meta, !.contents = EntryNames(f)]
                /\ pc' = "i_ret"
                /\ UNCHANGED result
    /\ UNCHANGED <<files, clock, conn, call, pre, made, ops, other>>

\* Mutant: the archive is opened in write mode, which truncates it.
M_InfoRead_WriteMode ==
    /\ pc = "i_read"
    /\ disk' = [disk EXCEPT ![loc.bundle_path] = Some(EmptyZip)]
    /\ Return(Caught("Failed to read bundle", "There is no item named"))
    /\ UNCHANGED <<store, backups, clock, conn, call, pre, made, ops, other>>

\* Lines 219-229: open the archive, extract the metadata entry alone (a
\* KeyError when it is missing), list the names, parse the metadata.
InfoRead ==
    /\ pc = "i_read"
    /\ LET f == The(disk[loc.bundle_path])
       IN  IF ~Readable(f)
           THEN Return(Caught("Failed to read bundle", "File is not a zip file"))
           ELSE IF ~IsSome(f.meta)
           THEN Return(Caught("Failed to read bundle", "There is no item named"))
           ELSE /\ scratch' = [NewScratch EXCEPT !.meta = f.meta]
                /\ loc' = [loc EXCEPT !.metadata = f.meta, !.contents = EntryNames(f)]
                /\ pc' = "i_ret"
                /\ UNCHANGED result
    /\ UNCHANGED <<files, clock, conn, call, pre, made, ops, other>>

\* Lines 231-238.
InfoResult ==
    [success |-> TRUE,
     bundle_path |-> loc.bundle_path,
     bundle_size |-> BundleSize(The(disk[loc.bundle_path])),
     metadata |-> The(loc.metadata),
     contents |-> loc.contents,
     message |-> <<"Bundle information retrieved successfully">>]

InfoReturn ==
    /\ pc = "i_ret"
    /\ Return(InfoResult)
    /\ UNCHANGED <<files, clock, conn, call, pre, made, ops, other>>

InfoFault ==
    /\ pc \in {"i_read", "i_ret"}
    /\ Return(Caught("Failed to read bundle", "OSError"))
    /\ call' = [call EXCEPT !.fault = pc]
    /\ UNCHANGED <<files, clock, conn, pre, made, ops, other>>

InfoSteps ==
    \/ InfoGuardBundle
    \/ InfoRead
    \/ InfoReturn

Info ==
    \/ \E p \in InputPaths : InfoCall(p)
    \/ InfoSteps
    \/ InfoFault

\* ------------------------------------------------------ status (HTTP API)
\* An HTTP answer: jsonify(body) with a status code.
Response(code, body) == [code |-> code, body |-> body]

\* os.path.getsize(db_path): a function of the file's content alone.
StoreSize(db) == Len(TableStmts(db))

\* bundle_status, src/bundle_api.py lines 164-192 (the CLI's status command
\* reads the store in the same two steps).
StatusCall ==
    /\ Begin("status", <<>>, FALSE, None, "s_exists")
    /\ loc' = NoLoc
    /\ scratch' = NoScratch

\* Line 169: db_exists = os.path.exists(db_path).
StatusExists ==
    /\ pc = "s_exists"
    /\ loc' = [loc EXCEPT !.db_exists = IsSome(store)]
    /\ pc' = "s_size"
    /\ UNCHANGED <<files, clock, scratch, conn, result, call, pre, made, ops, other>>

\* Line 170: os.path.getsize(db_path) if db_exists else 0; getsize raises
\* FileNotFoundError when the file is no longer there, and the handler at
\* lines 186-191 answers 500.
StatusSize ==
    /\ pc = "s_size"
    /\ IF loc.db_exists /\ ~IsSome(store)
       THEN Return(Response(500, Caught("Failed to get bundle status", "FileNotFoundError")))
       ELSE /\ loc' = [loc EXCEPT !.db_size = IF loc.db_exists THEN StoreSize(The(store)) ELSE 0]
            /\ pc' = "s_ret"
            /\ UNCHANGED <<scratch, result>>
    /\ UNCHANGED <<files, clock, conn, call, pre, made, ops, other>>

\* Lines 172-184.
StatusBody ==
    [success |-> TRUE,
     database_exists |-> loc.db_exists,
     database_size |-> loc.db_size,
     bundle_version |-> BUNDLE_VERSION,
     bundle_extension |-> BUNDLE_EXTENSION,
     can_create_bundle |-> TRUE,
     can_restore_bundle |-> TRUE,
     message |-> <<"Bundle status retrieved successfully">>]

StatusReturn ==
    /\ pc = "s_ret"
    /\ Return(Response(200, StatusBody))
    /\ UNCHANGED <<files, clock, conn, call, pre, made, ops, other>>

\* Another process removes the store file while a status request is being
\* served or a bundle is being built.
OtherRemovesStore ==
    /\ pc \in {"s_exists", "s_size", "s_ret"} \cup CreatePcs
    /\ IsSome(store)
    /\ ops < MaxOps
    /\ ops' = ops + 1
    /\ store' = None
    /\ pre' = [pre EXCEPT !.kept = FALSE, !.clean = FALSE]
    /\ UNCHANGED <<disk, backups, clock, pc, loc, scratch, conn, result, call,
                   made, other>>

\* Another process creates or rewrites the store file while a bundle is
\* being built.
OtherWritesStore(c) ==
    /\ pc \in CreatePcs
    /\ store # Some(c)
    /\ ops < MaxOps
    /\ ops' = ops + 1
    /\ store' = Some(c)
    /\ UNCHANGED <<disk, backups, clock, pc, loc, scratch, conn, result, call,
                   pre, made, other>>

Status ==
    \/ StatusCall
    \/ StatusExists
    \/ StatusSize
    \/ StatusReturn

\* ----------------------------------------------- restore over HTTP (API)
\* request.form.get('force', 'false').lower() == 'true', src/bundle_api.py
\* line 100, on the form values a client may send (None: no such field).
ForceForms == {None, Some("True"), Some("1")}
Lower(s) == IF s = "True" THEN "true" ELSE s
ParseForce(o) == IsSome(o) /\ Lower(The(o)) = "true"

\* The file names a client may send: none, one without and one with the
\* extension.
UploadNames == {<<>>, <<"a">>, <<"a", BUNDLE_EXTENSION>>}

\* The files a client may upload.
Uploads == {NotZip, MetaOnly, SqlOnly(DbA), SqlOnly(DbAB), RawAndData}

\* POST /api/bundle/restore, src/bundle_api.py lines 66-118; upload is the
\* 'bundle_file' part of the request, if there is one.
HttpRestoreCall(upload, name, form) ==
    /\ pc = "idle"
    /\ ops < MaxOps
    /\ ops' = ops + 1
    /\ call' = [NoCall EXCEPT !.op = "http_restore", !.path = name,
                              !.force = ParseForce(form), !.upload = upload]
    /\ pre' = Snapshot
    /\ pc' = "h_check"
    /\ result' = None
    /\ conn' = NoConn
    /\ loc' = NoLoc
    /\ scratch' = NoScratch
    /\ UNCHANGED <<files, clock, made, other>>

Answer(code, body) ==
    /\ result' = Some(Response(code, body))
    /\ pc' = "idle"
    /\ UNCHANGED <<loc, scratch>>

\* Mutant: the file name's extension is not looked at.
M_HttpCheck ==
    /\ pc = "h_check"
    /\ IF ~IsSome(call.upload)
       THEN Answer(400, Failure("No bundle file provided", <<"Please upload a bundle file">>))
       ELSE IF call.path = <<>>
       THEN Answer(400, Failure("No file selected", <<"Please select a bundle file">>))
       ELSE /\ pc' = "h_save"
            /\ UNCHANGED <<loc, scratch, result>>
    /\ UNCHANGED <<files, clock, conn, call, pre, made, ops, other>>

\* Lines 76-97: the three rejections.
HttpCheck ==
    /\ pc = "h_check"
    /\ IF ~IsSome(call.upload)
       THEN Answer(400, Failure("No bundle file provided", <<"Please upload a bundle file">>))
       ELSE IF call.path = <<>>
       THEN Answer(400, Failure("No file selected", <<"Please select a bundle file">>))
       ELSE IF ~EndsWithExt(call.path)
       THEN Answer(400, Failure("Invalid file type",
                                <<"Bundle file must have", BUNDLE_EXTENSION, "extension">>))
       ELSE /\ pc' = "h_save"
            /\ UNCHANGED <<loc, scratch, result>>
    /\ UNCHANGED <<files, clock, conn, call, pre, made, ops, other>>

\* Lines 103-107: the upload is saved under a temporary name and
\* bundle_manager.restore_bundle is called on it.
HttpSave ==
    /\ pc = "h_save"
    /\ disk' = [disk EXCEPT ![TempPath] = call.upload]
    /\ loc' = [NoLoc EXCEPT !.bundle_path = TempPath, !.force = call.force]
    /\ scratch' = NoScratch
    /\ pc' = "r_guard1"
    /\ UNCHANGED <<store, backups, clock, conn, result, call, pre, made, ops, other>>

\* Lines 108-111: the manager has returned; the `finally` block unlinks
\* the temporary file and the result is answered with 200 or 400.
HttpRespond ==
    /\ pc = "h_respond"
    /\ disk' = [disk EXCEPT ![TempPath] = None]
    /\ Answer(IF The(result).success THEN 200 ELSE 400, The(result))
    /\ UNCHANGED <<store, backups, clock, conn, call, pre, made, ops, other>>

\* Saving the upload or unlinking the copy raises (an I/O error): the
\* handler at lines 113-118 answers 500; the temporary file, created by
\* NamedTemporaryFile(delete=False), stays.
HttpFault ==
    /\ pc \in {"h_save", "h_respond"}
    /\ disk' = IF pc = "h_save" THEN [disk EXCEPT ![TempPath] = Some(NotZip)] ELSE disk
    /\ Answer(500, Caught("Failed to restore bundle", "OSError"))
    /\ call' = [call EXCEPT !.fault = pc]
    /\ UNCHANGED <<store, backups, clock, conn, pre, made, ops, other>>

HttpRestore ==
    \/ \E name \in UploadNames, form \in ForceForms : HttpRestoreCall(None, name, form)
    \/ \E u \in Uploads, name \in UploadNames, form \in ForceForms :
          HttpRestoreCall(Some(u), name, form)
    \/ HttpCheck
    \/ HttpSave
    \/ HttpRespond
    \/ HttpFault

\* ------------------------------------------------------- two callers
\* Mutant: both callers use one scratch directory.
M_Switch ==
    /\ other' = [Context EXCEPT !.scratch = other.scratch]
    /\ pc' = other.pc
    /\ loc' = other.loc
    /\ conn' = other.conn
    /\ result' = other.result
    /\ call' = other.call
    /\ UNCHANGED <<files, clock, scratch, pre, made, ops>>

\* The scheduler lets the other caller run: the two calls' positions,
\* locals, connections and scratch directories change places, the files
\* are shared.
Switch ==
    /\ other' = Context
    /\ pc' = other.pc
    /\ loc' = other.loc
    /\ scratch' = other.scratch
    /\ conn' = other.conn
    /\ result' = other.result
    /\ call' = other.call
    /\ UNCHANGED <<files, clock, pre, made, ops>>

\* The other caller has no call in flight on the bundle file at bp.
OtherElsewhere(bp) == other.pc = "idle" \/ other.loc.bundle_path # bp

PairCustoms == {None, Some({<<Obj("str", "version"), Obj("str", "0.1")>>})}

PairCreateCall(p, m) ==
    /\ OtherElsewhere(Normalize(p))
    /\ CreateCall(p, m)

PairInfoCall(p) ==
    /\ OtherElsewhere(p)
    /\ InfoCall(p)

\* ----------------------------------------------------------- specification
Env ==
    \/ Tick
    \/ \E c \in StoreContents : AppWriteStore(c)
    \/ AppRemoveStore
    \/ \E p \in {Normalize(q) : q \in InputPaths}, f \in ForeignBundles : PlaceBundle(p, f)

Next == Create \/ Restore \/ Info \/ Env

Spec == Init /\ [][Next]_vars

\* The status request served while other processes use the files.
NextStatus == Status \/ OtherRemovesStore \/ Env

SpecStatus == Init /\ [][NextStatus]_vars

\* Two callers of one manager, on different bundle files, the store
\* unchanged.
NextPair ==
    \/ \E p \in PairPaths, m \in PairCustoms : PairCreateCall(p, m)
    \/ \E p \in PairPaths : PairInfoCall(Normalize(p))
    \/ CreateSteps
    \/ InfoSteps
    \/ Switch

SpecPair == Init /\ [][NextPair]_vars

\* create_bundle while other processes use the store.
NextRace ==
    \/ Create
    \/ OtherRemovesStore
    \/ \E c \in StoreContents : OtherWritesStore(c)

SpecRace == Init /\ [][NextRace]_vars

\* The HTTP restore endpoint in front of the manager.
NextHttp ==
    \/ HttpRestore
    \/ RestoreSteps
    \/ \E c \in StoreContents : AppWriteStore(c)
    \/ AppRemoveStore

SpecHttp == Init /\ [][NextHttp]_vars

\* ----------------------------------------------------------------- claims
\* The last call returned a result to its caller.
Returned(op) == pc = "idle" /\ call.op = op /\ ~call.crashed /\ IsSome(result)
\* No statement of the last call was made to raise by the environment.
NoFault == call.fault = ""
FilesUnchanged == store = pre.store /\ disk = pre.disk /\ backups = pre.backups
BackupFiles(b) == {t \in Stamps : IsSome(b[t])}
\* The bundle file the restore or info call was given, as the call found it.
GivenBundle == pre.disk[call.path]

\* C1: restore_bundle with force=false on an existing bundle file while a
\* live store exists fails with "Database exists" whatever the bundle holds,
\* and at no point of the call is the store, a backup or the bundle changed
\* or a scratch directory allocated.
C1_NoForceFailsUntouched ==
    (call.op = "restore" /\ ~call.force /\ IsSome(pre.store) /\ IsSome(GivenBundle))
    => /\ FilesUnchanged
       /\ ~scratch.exists
       /\ Returned("restore") =>
            /\ The(result).success = FALSE
            /\ The(result).error = "Database exists"

C1_Witness ==
    /\ Returned("restore") /\ ~call.force /\ IsSome(pre.store)
    /\ GivenBundle = Some(NotZip)
    /\ The(result).error = "Database exists"

\* C2: once a forced restore over a live store has passed validation, a
\* backup file holding the pre-restore content of the store exists from
\* before the first step that overwrites or removes the store, on every
\* import path, and it is still there when the call has returned, whether
\* the import succeeded or not.
ImportPcs == {"r_select", "r_copy", "r_sql_remove", "r_sql_connect",
              "r_sql_schema", "r_sql_data", "r_sql_close", "r_empty_remove",
              "r_empty_init", "r_ret"}

C2_BackupBeforeOverwrite ==
    (call.op = "restore" /\ IsSome(pre.store))
    => /\ pc \in ImportPcs =>
            /\ loc.backup_created
            /\ IsSome(loc.backup_path)
            /\ backups[The(loc.backup_path)] = pre.store
       /\ store # pre.store => \E t \in Stamps : backups[t] = pre.store
       /\ pc \notin ImportPcs \cup {"idle"} => store = pre.store

C2_Witness ==
    /\ Returned("restore") /\ IsSome(pre.store)
    /\ The(result).success = FALSE
    /\ store # pre.store
    /\ \E t \in Stamps : backups[t] = pre.store /\ pre.backups[t] = None

\* C3: a pre-restore safety backup, once created, still exists and still
\* holds the content it was created with after every later step.
C3_BackupsKept ==
    [][\A t \in Stamps : IsSome(backups[t]) => backups'[t] = backups[t]]_vars

\* C4: during and after a create call the file at the bundle path is what
\* it was before the call or a complete archive, and a create that failed
\* leaves the path as it was.
CompleteArchive(f) ==
    /\ Readable(f)
    /\ IsSome(f.meta)
    /\ The(f.meta).database_included => IsSome(f.db)

C4_CreateAllOrNothing ==
    call.op = "create"
    => LET bp == Normalize(call.path)
       IN  /\ \/ disk[bp] = pre.disk[bp]
              \/ IsSome(disk[bp]) /\ CompleteArchive(The(disk[bp]))
           /\ (Returned("create") /\ ~The(result).success) => disk[bp] = pre.disk[bp]

\* C5: a restore that gets past the overwrite guard on a bundle whose
\* metadata version is not "1.0" (or is missing) changes no file at any
\* point, and fails with "Version mismatch".
BadVersion(o) ==
    /\ IsSome(o) /\ Readable(The(o)) /\ IsSome(The(o).meta)
    /\ The(The(o).meta).version # Some(BUNDLE_VERSION)

C5_VersionMismatchUntouched ==
    (call.op = "restore" /\ (call.force \/ ~IsSome(pre.store)) /\ BadVersion(GivenBundle))
    => /\ FilesUnchanged
       /\ (Returned("restore") /\ NoFault) =>
            /\ The(result).success = FALSE
            /\ The(result).error = "Version mismatch"

C5_Witness ==
    /\ Returned("restore") /\ call.force /\ IsSome(pre.store)
    /\ GivenBundle = Some(NoVersion)
    /\ The(result).error = "Version mismatch"

\* C6: restoring a bundle that create_bundle made from a store of content S
\* onto a path holding no store succeeds by the raw copy, reports no
\* backup, and leaves a store of content S.
MadeFromStore(p) == IsSome(made[p]) /\ IsSome(The(made[p]).store)
SourceOf(p) == The(made[p]).store

C6_RawCopyRoundTrip ==
    (Returned("restore") /\ NoFault /\ ~IsSome(pre.store) /\ MadeFromStore(call.path))
    => /\ The(result).success
       /\ The(result).restored_from = "backup_database"
       /\ The(result).backup_created = FALSE
       /\ "backup_path" \notin DOMAIN The(result)
       /\ store = SourceOf(call.path)

C6_Witness ==
    /\ Returned("restore") /\ NoFault /\ ~IsSome(pre.store) /\ MadeFromStore(call.path)
    /\ store = Some(DbAB)

\* C7: a forced restore over a store of content D, from a bundle that
\* create_bundle made from a store of content S, succeeds, reports the
\* backup and its path, adds exactly one backup file, which holds D, and
\* leaves a store of content S.
C7_ForcedRestoreOneBackup ==
    (Returned("restore") /\ NoFault /\ call.force /\ IsSome(pre.store)
        /\ MadeFromStore(call.path))
    => /\ The(result).success
       /\ The(result).backup_created
       /\ "backup_path" \in DOMAIN The(result)
       /\ LET t == The(result).backup_path
          IN  /\ t \notin BackupFiles(pre.backups)
              /\ BackupFiles(backups) = BackupFiles(pre.backups) \cup {t}
              /\ backups[t] = pre.store
              /\ \A u \in Stamps \ {t} : backups[u] = pre.backups[u]
       /\ store = SourceOf(call.path)

\* C8: when the SQL dump of an existing store raises after the raw copy was
\* taken, create_bundle still succeeds and the bundle holds the metadata
\* entry and the raw copy.
C8_DumpFailureTolerated ==
    (Returned("create") /\ call.fault \in ExportPcs /\ IsSome(pre.store))
    => /\ The(result).success
       /\ LET f == disk[Normalize(call.path)]
          IN  /\ IsSome(f) /\ Readable(The(f))
              /\ IsSome(The(f).meta)
              /\ The(f).db = pre.store

\* C9: create_bundle with no store at the store path (and a custom
\* mapping that JSON can encode) succeeds, reports
\* database_included = false and writes a readable bundle whose only entry
\* is the metadata document; list_bundle_info on a bundle whose only entry
\* is the metadata document succeeds and returns that metadata and the
\* entry list.
MetadataOnly(o) == IsSome(o) /\ Readable(The(o)) /\ EntryNames(The(o)) = <<META_NAME>>

C9_MetadataOnlyBundle ==
    /\ (Returned("create") /\ NoFault /\ ~IsSome(pre.store)
            /\ JsonEncodable(OrEmpty(call.custom)))
       => /\ The(result).success
          /\ The(result).metadata.database_included = FALSE
          /\ The(result).bundle_path = Normalize(call.path)
          /\ MetadataOnly(disk[Normalize(call.path)])
          /\ The(disk[Normalize(call.path)]).meta = Some(JsonRoundTrip(The(result).metadata))
    /\ (Returned("info") /\ NoFault /\ MetadataOnly(GivenBundle))
       => /\ The(result).success
          /\ The(result).metadata = The(The(GivenBundle).meta)
          /\ The(result).contents = <<META_NAME>>

C9_Witness ==
    /\ Returned("info") /\ NoFault
    /\ IsSome(GivenBundle) /\ IsSome(made[call.path]) /\ ~MadeFromStore(call.path)
    /\ The(result).success
    /\ The(result).contents = <<META_NAME>>

\* C10: list_bundle_info changes no file at any point of the call, whether
\* it succeeds or fails, and a call that directly repeats a call on the
\* same path, with the bundle as that call left it, returns the same result
\* (size, metadata and entry names included).
C10_InfoReadOnlyIdempotent ==
    call.op = "info"
    => /\ FilesUnchanged
       /\ (Returned("info") /\ NoFault /\ IsSome(call.prev)
              /\ The(call.prev).path = call.path)
          => The(result) = The(call.prev).result

C10_Witness ==
    /\ Returned("info") /\ NoFault /\ IsSome(call.prev)
    /\ The(call.prev).path = call.path
    /\ The(result).success
    /\ The(result).contents = <<META_NAME, DB_NAME, SCHEMA_NAME, DATA_NAME>>

\* C11: on an archive with no metadata entry and on a file that is not an
\* archive, list_bundle_info and a restore_bundle that gets past the
\* overwrite guard change no file at any point (so the store is as it was
\* and no backup appears) and return a failure; the restore of a readable
\* archive without metadata fails with "Invalid bundle".
Malformed(o) == IsSome(o) /\ (~Readable(The(o)) \/ ~IsSome(The(o).meta))

C11_MalformedBundleFails ==
    (/\ \/ call.op = "info"
        \/ call.op = "restore" /\ (call.force \/ ~IsSome(pre.store))
     /\ ~call.crashed
     /\ Malformed(GivenBundle))
    => /\ FilesUnchanged
       /\ pc = "idle" =>
            /\ IsSome(result)
            /\ The(result).success = FALSE
            /\ "error" \in DOMAIN The(result)
       /\ (Returned("restore") /\ NoFault /\ Readable(The(GivenBundle)))
            => The(result).error = "Invalid bundle"

C11_Witness ==
    /\ Returned("restore") /\ NoFault /\ call.force /\ IsSome(pre.store)
    /\ GivenBundle = Some(EmptyZip)
    /\ The(result).error = "Invalid bundle"
    /\ store = pre.store

\* C12: restore_bundle and list_bundle_info on a path holding no file fail
\* with "Bundle file not found", whatever force is and whether or not a
\* store exists, and at no point of the call is a store, a backup, a bundle
\* file or a scratch directory created or changed.
C12_MissingBundleNotFound ==
    (call.op \in {"restore", "info"} /\ ~IsSome(GivenBundle))
    => /\ FilesUnchanged
       /\ ~scratch.exists
       /\ pc = "idle" =>
            /\ IsSome(result)
            /\ The(result).success = FALSE
            /\ The(result).error = "Bundle file not found"

C12_Witness ==
    /\ Returned("restore") /\ ~call.force /\ IsSome(pre.store)
    /\ ~IsSome(GivenBundle)
    /\ The(result).error = "Bundle file not found"
    /\ disk = [p \in DiskPaths |-> None]

\* C13: a successful restore reports the raw copy when the
\* bundle holds vitanet_backup.db, otherwise the SQL dump when it holds
\* schema.sql or data.sql, and the empty store only when it holds none of
\* the three.
C13_VariantByPriority ==
    (Returned("restore") /\ The(result).success)
    => LET f == The(GivenBundle)
       IN  The(result).restored_from =
              IF IsSome(f.db) THEN "backup_database"
              ELSE IF IsSome(f.schema) \/ IsSome(f.data) THEN "sql_files"
              ELSE "empty_database"

\* C14: a restore that gets past the guards on a valid bundle holding
\* neither vitanet_backup.db nor schema.sql succeeds, reports
\* "empty_database" and leaves a store holding exactly the version record
\* and nothing of the store that was there; and a successful restore
\* reports "empty_database" in no other case.
TakesEmptyPath(o) ==
    /\ IsSome(o) /\ Readable(The(o)) /\ IsSome(The(o).meta)
    /\ The(The(o).meta).version = Some(BUNDLE_VERSION)
    /\ ~IsSome(The(o).db) /\ ~IsSome(The(o).schema)

C14_EmptyStorePath ==
    /\ (Returned("restore") /\ NoFault /\ (call.force \/ ~IsSome(pre.store))
            /\ TakesEmptyPath(GivenBundle))
       => /\ The(result).success
          /\ The(result).restored_from = "empty_database"
          /\ store = Some(<<Table("vitanet_info", << <<"version", "1.0">> >>)>>)
    /\ (Returned("restore") /\ The(result).success
            /\ The(result).restored_from = "empty_database")
       => TakesEmptyPath(GivenBundle)

C14_Witness ==
    /\ Returned("restore") /\ NoFault /\ call.force /\ pre.store = Some(DbAB)
    /\ GivenBundle = Some(MetaOnly)
    /\ The(result).restored_from = "empty_database"
    /\ store = Some(EmptyDatabase)

\* C15: whenever a call of create_bundle, restore_bundle or
\* list_bundle_info has ended without the process dying, on whatever input
\* and whichever step failed, it has returned a result; the result carries
\* a boolean success and a message, and an error when success is false.
C15_AlwaysAResult ==
    (pc = "idle" /\ call.op \in {"create", "restore", "info"} /\ ~call.crashed)
    => /\ IsSome(result)
       /\ {"success", "message"} \subseteq DOMAIN The(result)
       /\ The(result).success \in BOOLEAN
       /\ The(result).success = FALSE => "error" \in DOMAIN The(result)

C15_Witness ==
    /\ Returned("create") /\ call.fault = "c_export"
    /\ The(result).success = FALSE
    /\ The(result).error = "OSError"

\* C16: for every custom mapping M given to create_bundle (the absent
\* mapping standing for the empty one), the create result, and a later
\* list_bundle_info of the bundle it wrote, report custom metadata equal to
\* M and the format version "1.0".
GivenCustom == OrEmpty(call.custom)

JsonNative(cm) == \A p \in cm : p[1].kind = "str" /\ p[2].kind \in {"str", "list"}
Decoded(cm) == {<<JsonKey(p[1]), JsonValue(p[2])>> : p \in cm}

SuffixedPath(p) ==
    IF Len(p) > 0 /\ p[Len(p)] = ".vitanet" THEN p ELSE p \o <<".vitanet">>

C17_ExtensionAppendedOnce ==
    call.op = "create"
    => /\ \A p \in DiskPaths \ {SuffixedPath(call.path)} : disk[p] = pre.disk[p]
       /\ (Returned("create") /\ The(result).success)
          => LET bp == The(result).bundle_path
             IN  /\ bp = SuffixedPath(call.path)
                 /\ bp[Len(bp)] = ".vitanet"
                 /\ IsSome(disk[bp]) /\ Readable(The(disk[bp]))

C17_Witness ==
    /\ Returned("create") /\ The(result).success
    /\ call.path = <<"a">>
    /\ The(result).bundle_path = <<"a", ".vitanet">>
    /\ disk[<<"a">>] = None
    /\ IsSome(disk[<<"a", ".vitanet">>])

\* C18: a status request, whatever happens to the store while it is
\* served (absent, present, or removed by another process between the
\* existence check and the size read), is answered with success, whether
\* the store exists, its size (0 when it does not), the version "1.0" and
\* the extension ".vitanet"; and the request itself changes no file.
C18_StatusAlwaysSucceeds ==
    /\ call.op = "status"
       => /\ disk = pre.disk /\ backups = pre.backups
          /\ store \in {pre.store, None}
    /\ Returned("status")
       => /\ The(result).code = 200
          /\ The(result).body.success
          /\ The(result).body.database_exists \in BOOLEAN
          /\ The(result).body.database_exists = FALSE => The(result).body.database_size = 0
          /\ The(result).body.bundle_version = "1.0"
          /\ The(result).body.bundle_extension = ".vitanet"

\* C19: the HTTP restore endpoint answers 400 to a request without a
\* bundle file ("No bundle file provided"), with an empty file name or
\* with a file name not ending in ".vitanet" ("Invalid file type") without
\* calling the manager or changing any file; any other request is answered
\* 200 when the manager's result has success = true and 400 when it has
\* success = false, and the temporary copy of the upload is gone when the
\* answer is given.
Rejected ==
    ~IsSome(call.upload) \/ call.path = <<>>
        \/ call.path[Len(call.path)] # ".vitanet"
HttpFaulted == call.fault \in {"h_save", "h_respond"}

C19_HttpRestoreAnswers ==
    call.op = "http_restore"
    => /\ Rejected
          => /\ pc \in {"h_check", "idle"}
             /\ FilesUnchanged
             /\ pc = "idle"
                => /\ The(result).code = 400
                   /\ The(result).body.success = FALSE
                   /\ The(result).body.error =
                         IF ~IsSome(call.upload) THEN "No bundle file provided"
                         ELSE IF call.path = <<>> THEN "No file selected"
                         ELSE "Invalid file type"
       /\ (~Rejected /\ pc = "h_respond") => IsSome(result) /\ IsSome(disk[TempPath])
       /\ (~Rejected /\ pc = "idle" /\ ~HttpFaulted)
          => /\ The(result).code = IF The(result).body.success THEN 200 ELSE 400
             /\ \A p \in DiskPaths \ {TempPath} : disk[p] = pre.disk[p]
             /\ disk[TempPath] = None

C19_Witness ==
    /\ call.op = "http_restore" /\ pc = "idle" /\ ~Rejected /\ ~HttpFaulted
    /\ pre.store = Some(DbAB) /\ call.force
    /\ call.upload = Some(RawAndData)
    /\ The(result).code = 200
    /\ store = Some(DbA)
    /\ disk[TempPath] = None

\* C20: for every store, the data script the exporter writes is exactly the
\* INSERT statements of the dump, in the dump's order, and the schema
\* script is exactly the CREATE statements of the dump, in the dump's
\* order, so that none of them is lost wherever it stands among the
\* INSERT statements.
Only(lines, k) == SelectSeq(lines, LAMBDA st : StartsWith(st, k))

C20_ExportSplitsDump ==
    (call.op = "create" /\ pc = "c_zip_open" /\ IsSome(pre.store)
        /\ IsSome(scratch.schema) /\ IsSome(scratch.data))
    => LET dump == Iterdump(The(pre.store))
       IN  /\ The(scratch.data) = Only(dump, "INSERT")
           /\ The(scratch.schema) = Only(dump, "CREATE")

\* C21: a dump statement that is neither a CREATE nor an INSERT (the
\* transaction's BEGIN and COMMIT) is in neither script the exporter
\* writes, wherever it stands in the dump: the schema script holds CREATE
\* statements only and the data script INSERT statements only.
C21_OtherStatementsDropped ==
    (call.op = "create" /\ pc = "c_zip_open" /\ IsSome(pre.store)
        /\ IsSome(scratch.schema) /\ IsSome(scratch.data))
    => /\ \A i \in 1..Len(The(scratch.schema)) : The(scratch.schema)[i].kw = "CREATE"
       /\ \A i \in 1..Len(The(scratch.data)) : The(scratch.data)[i].kw = "INSERT"

\* C22: restoring, onto a path holding no store, a bundle that holds the
\* schema and data scripts exported from a store S and no raw copy
\* succeeds by the SQL import and leaves a store with the tables and rows
\* of S.
C22_SqlDumpReplayable ==
    \A S \in StoreContents :
        (Returned("restore") /\ NoFault /\ ~IsSome(pre.store)
            /\ GivenBundle = Some(SqlOnly(S)))
        => /\ The(result).success
           /\ The(result).restored_from = "sql_files"
           /\ store = Some(S)

\* C23: when a script of the bundle fails to replay during an SQL import,
\* restore_bundle returns a failure, the store is left as the replay up
\* to the failing statement made it (nothing is rolled back), and a store
\* that existed before the call is held by a backup.
SqlImported(o) ==
    /\ IsSome(o) /\ Readable(The(o)) /\ IsSome(The(o).meta)
    /\ The(The(o).meta).version = Some(BUNDLE_VERSION)
    /\ ~IsSome(The(o).db) /\ IsSome(The(o).schema)

\* The replay of the two scripts of bundle f against a new, empty database.
Replay(f) ==
    LET s1 == ExecScript(The(f.schema), ConnState(TRUE, FALSE, DbEmpty, DbEmpty))
    IN  IF s1.ok /\ IsSome(f.data) THEN ExecScript(The(f.data), s1) ELSE s1

C23_ScriptFailureNoRollback ==
    (Returned("restore") /\ NoFault /\ (call.force \/ ~IsSome(pre.store))
        /\ SqlImported(GivenBundle) /\ ~Replay(The(GivenBundle)).ok)
    => /\ The(result).success = FALSE
       /\ The(result).error = "sqlite3.OperationalError"
       /\ store = Some(Replay(The(GivenBundle)).file)
       /\ IsSome(pre.store) => \E t \in Stamps : backups[t] = pre.store

C23_Witness ==
    /\ Returned("restore") /\ NoFault /\ call.force /\ pre.store = Some(DbA)
    /\ GivenBundle = Some(SqlOnly(DbAB))
    /\ The(result).success = FALSE
    /\ store = Some(<<Table("a", << <<"test1", "100">> >>)>>)
    /\ \E t \in Stamps : backups[t] = Some(DbA)

\* C24: with two callers whose calls in flight are on different bundle
\* files and a store that does not change, every create_bundle call that
\* returns after all its steps, however they were interleaved with the
\* other caller's, returns the result and leaves the bundle (built from
\* its own metadata and the store) that it gives when run alone, and every
\* list_bundle_info call returns what the bundle at its path holds.
AloneMetadata(m) ==
    [version |-> Some("1.0"), created_at |-> clock, vitanet_version |-> "1.0",
     database_included |-> IsSome(store),
     custom_metadata |-> IF m = None THEN {} ELSE The(m)]
AloneBundle(m) ==
    [zip |-> TRUE, closed |-> TRUE,
     meta |-> Some(AloneMetadata(m)),
     db |-> store,
     schema |-> IF IsSome(store) THEN Some(SchemaLines(Iterdump(The(store)))) ELSE None,
     data |-> IF IsSome(store) THEN Some(DataLines(Iterdump(The(store)))) ELSE None]
AloneCreate(p, m) ==
    LET bp == IF p[Len(p)] = ".vitanet" THEN p ELSE p \o <<".vitanet">>
    IN  [success |-> TRUE, bundle_path |-> bp,
         bundle_size |-> BundleSize(AloneBundle(m)),
         metadata |-> AloneMetadata(m),
         message |-> <<"Bundle created successfully at", bp>>]
AloneInfo(p) ==
    [success |-> TRUE, bundle_path |-> p,
     bundle_size |-> BundleSize(The(disk[p])),
     metadata |-> The(The(disk[p]).meta),
     contents |-> EntryNames(The(disk[p])),
     message |-> <<"Bundle information retrieved successfully">>]

C24_DifferentBundlesNoInterference ==
    [][/\ (other' = other /\ pc = "c_ret" /\ pc' = "idle")
          => /\ result' = Some(AloneCreate(call.path, call.custom))
             /\ disk'[AloneCreate(call.path, call.custom).bundle_path]
                   = Some(AloneBundle(call.custom))
       /\ (other' = other /\ pc = "i_ret" /\ pc' = "idle")
          => result' = Some(AloneInfo(call.path))
      ]_vars

C24_Witness ==
    /\ pc = "idle" /\ call.op = "create" /\ call.path = <<"a">>
    /\ IsSome(result) /\ The(result).success
    /\ other.pc = "c_zip_schema" /\ other.call.path = <<"b">>
    /\ other.call.custom # call.custom
    /\ other.scratch.exists
    /\ IsSome(disk[<<"a", ".vitanet">>]) /\ IsSome(disk[<<"b", ".vitanet">>])

\* C25: when create_bundle, restore_bundle or list_bundle_info has
\* returned, by whatever exit and after whichever step raised, the archive
\* it opened is closed, the store connection it opened is closed and its
\* scratch directory is gone.
C25_HandlesReleased ==
    (pc = "idle" /\ call.op \in {"create", "restore", "info"} /\ ~call.crashed)
    => /\ ~conn.open
       /\ ~scratch.exists
       /\ \A p \in DiskPaths : IsSome(disk[p]) /\ The(disk[p]).zip => The(disk[p]).closed

\* C26: no step of a create_bundle call changes the file at the store
\* path (a store stays as it is, an absent store stays absent), also when
\* another process removes the store while the call is running.
C26_CreateLeavesStore ==
    [][(call.op = "create" /\ pc \in CreatePcs /\ ops' = ops) => store' = store]_vars

\* C27: in the bundle a successful create_bundle leaves, the metadata
\* says database_included exactly when the raw copy entry is there, and
\* the SQL scripts that accompany a raw copy are the dump of the content
\* the raw copy holds; also when another process
\* creates, removes or rewrites the store while the call is running.
C27_BundleSelfConsistent ==
    (Returned("create") /\ The(result).success)
    => LET f == The(disk[The(result).bundle_path])
       IN  /\ The(f.meta).database_included = IsSome(f.db)
           /\ The(result).metadata.database_included = IsSome(f.db)
           /\ (IsSome(f.db) /\ IsSome(f.schema)) =>
                 The(f.schema) = SchemaLines(Iterdump(The(f.db)))
           /\ (IsSome(f.db) /\ IsSome(f.data)) =>
                 The(f.data) = DataLines(Iterdump(The(f.db)))

\* C28: a restore_bundle call that has written a backup file returns a
\* result carrying backup_created = true and the backup's path, whether
\* the import after the backup succeeded or failed; and a result that
\* carries backup_path comes from a call that wrote that backup.
C28_BackupReported ==
    Returned("restore")
    => /\ backups # pre.backups
          => /\ "backup_created" \in DOMAIN The(result)
             /\ The(result).backup_created
             /\ "backup_path" \in DOMAIN The(result)
             /\ backups[The(result).backup_path] = pre.store
       /\ "backup_path" \in DOMAIN The(result)
          => /\ IsSome(pre.store)
             /\ backups[The(result).backup_path] = pre.store

\* C29: restore_bundle evaluates its guards in a fixed order and reports
\* the first that fails: no file at the bundle path, then a live store with
\* force = false, then an archive that cannot be read or holds no metadata
\* entry, then a version other than "1.0".  The scratch directory exists
\* only in calls that passed the first two guards, and the backup and the
\* import steps run only in calls that passed all four.
FirstFailingGuard ==
    IF ~IsSome(GivenBundle) THEN {"Bundle file not found"}
    ELSE IF IsSome(pre.store) /\ ~call.force THEN {"Database exists"}
    ELSE IF ~Readable(The(GivenBundle)) THEN {"File is not a zip file"}
    ELSE IF ~IsSome(The(GivenBundle).meta) THEN {"Invalid bundle"}
    ELSE IF The(The(GivenBundle).meta).version # Some(BUNDLE_VERSION)
         THEN {"Version mismatch"}
    ELSE {}
GuardErrors == {"Bundle file not found", "Database exists",
                "File is not a zip file", "Invalid bundle", "Version mismatch"}
PastGuardsPcs == {"r_backup", "r_select", "r_copy", "r_sql_remove",
                  "r_sql_connect", "r_sql_schema", "r_sql_data", "r_sql_close",
                  "r_empty_remove", "r_empty_init", "r_ret"}

C29_GuardOrder ==
    call.op = "restore"
    => /\ (Returned("restore") /\ NoFault)
          => IF FirstFailingGuard = {}
             THEN The(result).success \/ The(result).error \notin GuardErrors
             ELSE ~The(result).success /\ The(result).error \in FirstFailingGuard
       /\ scratch.exists
          => IsSome(GivenBundle) /\ (call.force \/ ~IsSome(pre.store))
       /\ (pc \in PastGuardsPcs \/ store # pre.store \/ backups # pre.backups)
          => FirstFailingGuard = {}

C29_Witness ==
    /\ Returned("restore") /\ NoFault
    /\ ~call.force /\ IsSome(pre.store)
    /\ GivenBundle = Some(WrongVersion)
    /\ The(result).error = "Database exists"
    /\ FilesUnchanged

====
